---- MODULE Spec2Model ----
(***************************************************************************)
(* State-machine model of the two React components of the graph viewer:    *)
(*   EmbeddedGraphView (src/src/components/Graph/EmbeddedGraphView.tsx)     *)
(*   GraphViewer       (src/src/components/Graph/GraphViewer.tsx)           *)
(* A handler together with the effects React runs after its commit is one  *)
(* action.  The helpers of utils/Utils (processGraphData, filterData,      *)
(* graphTypeFromNodes, getCheckboxConditions) and services/GraphQuery are   *)
(* not among the source files; they are modelled from the specification.   *)
(***************************************************************************)
EXTENDS Integers, Sequences, FiniteSets, TLC

\* ------------------------------------------------------------------ bounds
\* Longest raw node list a host passes to EmbeddedGraphView.
MaxNodes == 2
\* Longest raw node list of a sample or backend payload in GraphViewer.
MaxPayloadNodes == 1

\* --------------------------------------------------------------- universes
\* Text is a sequence of characters, so that substring search and case
\* folding are computed, not assumed.  Node ids are text: the nodes carry no
\* caption property, so a caption falls back to the id.
NodeIds == {<<"A">>, <<"b">>}

\* A relationship may also name an id that is never a node.
EndpointIds == NodeIds \cup {<<"z">>}

Labels == {"Document", "Person"}

Queries == {<<>>, <<"a">>}

GraphTypes == {"DocumentChunk", "Entities"}

ViewPoints == {"chatInfoView", "tableView"}

\* Well-formed raw nodes.
RawNodes == [id : NodeIds, label : Labels, shape : {"ok"}]

\* Raw nodes a helper cannot process: one without a label list, one without a
\* property bag.
MalformedNodes == {[id |-> <<"A">>, label |-> "Person", shape |-> "noLabels"],
                   [id |-> <<"A">>, label |-> "Person", shape |-> "noProperties"]}

\* A relationship leaves node A for the other node or for an id that is never
\* a node.
RawRels == [id : {"r1"}, from : {<<"A">>}, to : EndpointIds \ {<<"A">>}]

SeqsUpTo(S, n) == UNION {[1..k -> S] : k \in 0..n}

RawNodeLists == SeqsUpTo(RawNodes, MaxNodes) \cup {<<m>> : m \in MalformedNodes}

RawRelLists == SeqsUpTo(RawRels, 1)

\* What a sample fixture or a backend response carries.
PayloadNodeLists == SeqsUpTo(RawNodes, MaxPayloadNodes)

Passwords == {"", "secret"}

\* Most awaited backend calls the model follows at a time.
MaxInFlight == 2

\* File names are text.  The four sample files of handleAddSampleFiles, by
\* their initials; the first is also the initial document list.
SampleFiles == <<<<"A">>, <<"M">>, <<"F">>, <<"I">>>>

\* What the user types into the file name input.
FileInputs == {<<>>, <<" ">>, <<"x">>, <<" ", "x", " ">>, <<"A">>, <<"A", " ">>}

\* Errors a rejected request carries, other than the abort.
FailureErrors == [name : {"Error", "TypeError"}, message : {"", "Network Error"}]

AbortError == [name |-> "AbortError", message |-> "signal is aborted without reason"]

TimeoutMessage == "Request was cancelled due to timeout. The backend is taking too long to respond."

FallbackMessage == "Failed to load data from backend. Check your connection details."

\* ------------------------------------------------------ helpers (utils/Utils)
Range(s) == {s[i] : i \in 1..Len(s)}

Ids(s) == {s[i].id : i \in 1..Len(s)}

\* Label Classifier: the category of a primary label.
CategoryOf(label) == IF label \in {"Document", "Chunk"} THEN "DocumentChunk" ELSE "Entities"

\* graphTypeFromNodes: the categories present among the nodes (order of the
\* array is not observed by any reader, so a set).
graphTypeFromNodes(nv) == {CategoryOf(nv[i].label) : i \in 1..Len(nv)}

\* getCheckboxConditions: a category's toggle is usable only if some node of
\* the canonical graph has it.
getCheckboxConditions(an) == {CategoryOf(an[i].label) : i \in 1..Len(an)}

Palette == <<"c1", "c2", "c3">>

\* A scheme maps a label to its colour; Unset marks a label that is no key of
\* the scheme.
Unset == "unset"

SchemeKeys(sch) == {l \in Labels : sch[l] # Unset}

\* The scheme {}.
EmptyScheme == [l \in Labels |-> Unset]

\* Scheme Assigner: an existing key keeps its colour; a new key gets the next
\* palette colour, cycling when the palette is exhausted.
AssignColor(label, sch) ==
  IF sch[label] # Unset THEN sch
  ELSE [sch EXCEPT ![label] = Palette[(Cardinality(SchemeKeys(sch)) % Len(Palette)) + 1]]

RECURSIVE SchemeOf(_, _)
SchemeOf(nv, sch) ==
  IF nv = <<>> THEN sch ELSE SchemeOf(Tail(nv), AssignColor(Head(nv).label, sch))

\* Deduplicate by id: the first record of an id keeps its place, identity and
\* label.
FirstIndex(s, id) == CHOOSE i \in 1..Len(s) : s[i].id = id /\ \A j \in 1..(i - 1) : s[j].id # id

IsFirst(s, i) == FirstIndex(s, s[i].id) = i

RECURSIVE KeepFirsts(_, _)
KeepFirsts(s, i) ==
  IF i > Len(s) THEN <<>>
  ELSE (IF IsFirst(s, i) THEN <<i>> ELSE <<>>) \o KeepFirsts(s, i + 1)

\* Graph Normalizer.
processGraphData(nv, rv) ==
  LET schemeVal == SchemeOf(nv, EmptyScheme)
      nidx == KeepFirsts(nv, 1)
      finalNodes == [k \in 1..Len(nidx) |->
                       [id |-> nv[nidx[k]].id,
                        label |-> nv[nidx[k]].label,
                        caption |-> nv[nidx[k]].id,
                        color |-> schemeVal[nv[nidx[k]].label]]]
      ridx == KeepFirsts(rv, 1)
      rels == [k \in 1..Len(ridx) |-> rv[ridx[k]]]
      finalRels == SelectSeq(rels, LAMBDA r : r.from \in Ids(finalNodes) /\ r.to \in Ids(finalNodes))
  IN [finalNodes |-> finalNodes, finalRels |-> finalRels, schemeVal |-> schemeVal]

\* Filter Engine as the component calls it: four arguments, no query.
filterData(gt, an, ar, sch) ==
  LET filteredNodes == SelectSeq(an, LAMBDA n : CategoryOf(n.label) \in gt)
      filteredRelations == SelectSeq(ar, LAMBDA r : r.from \in Ids(filteredNodes) /\ r.to \in Ids(filteredNodes))
  IN [filteredNodes |-> filteredNodes, filteredRelations |-> filteredRelations]

\* Schema Extractor: one schema node per distinct label, taken from the first
\* node of that label and keeping its colour; one schema relationship per
\* relationship type whose two endpoint labels are represented (the raw
\* relationships of the model are of one type), between the two schema nodes.
FirstOfLabel(rn, i) == \A j \in 1..(i - 1) : rn[j].label # rn[i].label

RECURSIVE LabelFirsts(_, _)
LabelFirsts(rn, i) ==
  IF i > Len(rn) THEN <<>>
  ELSE (IF FirstOfLabel(rn, i) THEN <<i>> ELSE <<>>) \o LabelFirsts(rn, i + 1)

LabelOfId(rn, id) == rn[CHOOSE i \in 1..Len(rn) : rn[i].id = id].label

extractGraphSchemaFromRawData(rn, rr) ==
  LET lidx == LabelFirsts(rn, 1)
      represented == SelectSeq(rr, LAMBDA r : r.from \in Ids(rn) /\ r.to \in Ids(rn))
  IN [nodes |-> [k \in 1..Len(lidx) |-> [label |-> rn[lidx[k]].label, color |-> rn[lidx[k]].color]],
      relationships |-> IF represented = <<>> THEN <<>>
                        ELSE <<[from |-> LabelOfId(rn, represented[1].from),
                                to |-> LabelOfId(rn, represented[1].to)]>>]

\* ------------------------------------------------------------------- state
VARIABLES
  \* EmbeddedGraphView props
  nodeValues, relationshipValues, viewPoint,
  \* EmbeddedGraphView state
  node, relationship, allNodes, allRelationships, status, scheme, newScheme,
  searchQuery, debouncedQuery, graphType,
  \* EmbeddedGraphView schema view state
  schemaNodes, schemaRels, viewCheck, openGraphView,
  \* GraphViewer state
  nodes, relationships, loading, error, showGraph, password,
  \* connectionForm.documentNames and the file name input
  documentNames, newFileName,
  \* the backend request of handleLoadBackendData that is in flight, if any
  request,
  \* history: the number of awaited backend calls that have not been committed,
  \* and the kind of load the user initiated last
  inFlight, lastLoad

egvProps == <<nodeValues, relationshipValues, viewPoint>>

schemaState == <<schemaNodes, schemaRels, viewCheck, openGraphView>>

egvState == <<node, relationship, allNodes, allRelationships, status, scheme, newScheme, searchQuery, debouncedQuery, graphType, schemaState>>

formState == <<documentNames, newFileName>>

history == <<inFlight, lastLoad>>

gvState == <<nodes, relationships, loading, error, showGraph, password, request, formState, history>>

vars == <<egvProps, egvState, gvState>>

\* error === null
Null == "<null>"

NoErr == [name |-> "", message |-> ""]

IdleRequest == [state |-> "idle", nodes |-> <<>>, relationships |-> <<>>, err |-> NoErr]

\* useState initial values of EmbeddedGraphView.
InitEGV ==
  /\ node = <<>>
  /\ relationship = <<>>
  /\ allNodes = <<>>
  /\ allRelationships = <<>>
  /\ status = "unknown"
  /\ scheme = EmptyScheme
  /\ newScheme = EmptyScheme
  /\ searchQuery = <<>>
  /\ debouncedQuery = <<>>
  /\ graphType = {}
  /\ schemaNodes = <<>>
  /\ schemaRels = <<>>
  /\ viewCheck = "enhancement"
  /\ openGraphView = FALSE

\* useState initial values of GraphViewer.
InitGV ==
  /\ nodes = <<>>
  /\ relationships = <<>>
  /\ loading = FALSE
  /\ error = Null
  /\ showGraph = FALSE
  /\ password = ""
  /\ request = IdleRequest
  /\ documentNames = <<SampleFiles[1]>>
  /\ newFileName = <<>>
  /\ inFlight = 0
  /\ lastLoad = "none"

\* The component is not mounted (GraphViewer renders it only while showGraph):
\* its state does not exist, which the model writes as the initial values.
UnmountEGV ==
  /\ nodeValues' = <<>>
  /\ relationshipValues' = <<>>
  /\ viewPoint' = viewPoint
  /\ node' = <<>>
  /\ relationship' = <<>>
  /\ allNodes' = <<>>
  /\ allRelationships' = <<>>
  /\ status' = "unknown"
  /\ scheme' = EmptyScheme
  /\ newScheme' = EmptyScheme
  /\ searchQuery' = <<>>
  /\ debouncedQuery' = <<>>
  /\ graphType' = {}
  /\ schemaNodes' = <<>>
  /\ schemaRels' = <<>>
  /\ viewCheck' = "enhancement"
  /\ openGraphView' = FALSE

\* EmbeddedGraphView mounted by some host with no data yet; the host chooses
\* the viewPoint prop once.
Init ==
  /\ nodeValues = <<>>
  /\ relationshipValues = <<>>
  /\ viewPoint \in ViewPoints
  /\ InitEGV
  /\ InitGV

\* ------------------------------------------------------ EmbeddedGraphView
\* loading is set true and back to false inside one effect run, so every
\* committed render sees false.
egvLoading == FALSE

checkBoxView == viewPoint # "chatInfoView"

\* Which branch the render takes.
Display ==
  IF nodeValues = <<>> /\ relationshipValues = <<>> THEN "noGraphData"
  ELSE IF egvLoading THEN "spinner"
  ELSE IF status = "danger" THEN "statusBanner"
  ELSE IF node = <<>> /\ relationship = <<>> /\ graphType # {} THEN "noNodesRels"
  ELSE IF graphType = {} /\ checkBoxView THEN "selectCheckbox"
  ELSE "graph"

\* The helper call of the try block that throws for raw nodes nv, if any:
\* graphTypeFromNodes reads the labels, processGraphData also the properties.
Thrown(nv) ==
  IF \E i \in 1..Len(nv) : nv[i].shape = "noLabels" THEN "graphTypeFromNodes"
  ELSE IF \E i \in 1..Len(nv) : nv[i].shape = "noProperties" THEN "processGraphData"
  ELSE "none"

\* Body of the initialize effect for props (nv, rv): state set before a throw
\* stays set, the catch sets status.
InitializeEffect(nv, rv) ==
  LET thrown == Thrown(nv)
      cur == [graphType |-> graphType, allNodes |-> allNodes, allRelationships |-> allRelationships,
              node |-> node, relationship |-> relationship, scheme |-> scheme,
              newScheme |-> newScheme, status |-> status]
      processedData == processGraphData(nv, rv)
  IN IF Len(nv) > 0 \/ Len(rv) > 0
     THEN IF thrown = "graphTypeFromNodes"
          THEN [cur EXCEPT !.status = "danger"]
          ELSE IF thrown = "processGraphData"
          THEN [cur EXCEPT !.graphType = graphTypeFromNodes(nv), !.status = "danger"]
          ELSE [graphType |-> graphTypeFromNodes(nv),
                allNodes |-> processedData.finalNodes,
                allRelationships |-> processedData.finalRels,
                node |-> processedData.finalNodes,
                relationship |-> processedData.finalRels,
                scheme |-> processedData.schemeVal,
                newScheme |-> processedData.schemeVal,
                status |-> "success"]
     ELSE [graphType |-> {}, allNodes |-> <<>>, allRelationships |-> <<>>,
           node |-> <<>>, relationship |-> <<>>, scheme |-> EmptyScheme,
           newScheme |-> EmptyScheme, status |-> "unknown"]

\* A variant of the filter effect that filters the nodes and keeps every
\* relationship of the canonical graph.
FilterEffectKeepsRelationships(dq, gt, an, ar, sch, cn, cr) ==
  IF dq # <<>> /\ Len(an) > 0
  THEN [node |-> filterData(gt, an, ar, sch).filteredNodes, relationship |-> ar]
  ELSE IF Len(an) > 0
  THEN [node |-> an, relationship |-> ar]
  ELSE [node |-> cn, relationship |-> cr]

\* A variant of the filter effect that narrows the currently visible sets.
FilterEffectFromVisible(dq, gt, an, ar, sch, cn, cr) ==
  IF dq # <<>> /\ Len(an) > 0
  THEN [node |-> filterData(gt, cn, cr, sch).filteredNodes,
        relationship |-> filterData(gt, cn, cr, sch).filteredRelations]
  ELSE IF Len(an) > 0
  THEN [node |-> an, relationship |-> ar]
  ELSE [node |-> cn, relationship |-> cr]

\* Body of the filter effect: the visible sets it leaves, given the values of
\* its dependencies and the current visible sets (cn, cr).
FilterEffect(dq, gt, an, ar, sch, cn, cr) ==
  IF dq # <<>> /\ Len(an) > 0
  THEN [node |-> filterData(gt, an, ar, sch).filteredNodes,
        relationship |-> filterData(gt, an, ar, sch).filteredRelations]
  ELSE IF Len(an) > 0
  THEN [node |-> an, relationship |-> ar]
  ELSE [node |-> cn, relationship |-> cr]

\* A render with the props nv, rv: the initialize effect runs, and after its
\* commit the filter effect, if one of its dependencies was set.
\* dq is the debounced query of this render; dq, s and vis are bound once each,
\* in every state the action is taken from.
RenderEGV(nv, rv) ==
  \E dq \in {debouncedQuery} :
  \E s \in {InitializeEffect(nv, rv)} :
  \E vis \in {IF Thrown(nv) = "graphTypeFromNodes"
              THEN [node |-> s.node, relationship |-> s.relationship]
              ELSE FilterEffect(dq, s.graphType, s.allNodes, s.allRelationships,
                                s.scheme, s.node, s.relationship)} :
     /\ nodeValues' = nv
     /\ relationshipValues' = rv
     /\ graphType' = s.graphType
     /\ allNodes' = s.allNodes
     /\ allRelationships' = s.allRelationships
     /\ scheme' = s.scheme
     /\ newScheme' = s.newScheme
     /\ status' = s.status
     /\ node' = vis.node
     /\ relationship' = vis.relationship
     /\ UNCHANGED <<viewPoint, searchQuery, debouncedQuery>>

\* The host passes new props; the state of the component and of the host is
\* kept.
HostRender(nv, rv) ==
  /\ RenderEGV(nv, rv)
  /\ UNCHANGED <<schemaState, gvState>>

\* ResultOverview's search box: rendered with the main view.  (No event or
\* timer of the page runs between the settling of a backend request and the
\* continuation that awaits it.)
SetSearchQuery(q) ==
  /\ request.state \notin {"fulfilled", "rejected"}
  /\ Display # "noGraphData"
  /\ q # searchQuery
  /\ searchQuery' = q
  /\ UNCHANGED <<egvProps, node, relationship, allNodes, allRelationships, status, scheme,
                 newScheme, debouncedQuery, graphType, schemaState, gvState>>

\* useDebounceValue delivers the query; the filter effect runs on the change.
DebounceElapsed ==
  LET vis == FilterEffect(searchQuery, graphType, allNodes, allRelationships, scheme, node, relationship)
  IN /\ request.state \notin {"fulfilled", "rejected"}
     /\ debouncedQuery # searchQuery
     /\ debouncedQuery' = searchQuery
     /\ node' = vis.node
     /\ relationship' = vis.relationship
     /\ UNCHANGED <<egvProps, allNodes, allRelationships, status, scheme, newScheme,
                    searchQuery, graphType, schemaState, gvState>>

updatedGraphType(graph) == IF graph \in graphType THEN graphType \ {graph} ELSE graphType \cup {graph}

\* A category toggle, then the filter effect on the changed graphType.
handleCheckboxChange(graph) ==
  LET vis == FilterEffect(debouncedQuery, updatedGraphType(graph), allNodes, allRelationships,
                          scheme, node, relationship)
  IN /\ checkBoxView
     /\ Display # "noGraphData"
     /\ graph \in getCheckboxConditions(allNodes)
     /\ graphType' = updatedGraphType(graph)
     /\ node' = vis.node
     /\ relationship' = vis.relationship
     /\ UNCHANGED <<egvProps, allNodes, allRelationships, status, scheme, newScheme,
                    searchQuery, debouncedQuery, schemaState, gvState>>

\* What handleRefresh sets.
RefreshVisible(an, ar) == [node |-> an, relationship |-> ar]

\* The refresh button exists in the graph display of a non-chat view.
handleRefresh ==
  /\ viewPoint # "chatInfoView"
  /\ Display = "graph"
  /\ Len(allNodes) > 0
  /\ node' = RefreshVisible(allNodes, allRelationships).node
  /\ relationship' = RefreshVisible(allNodes, allRelationships).relationship
  /\ UNCHANGED <<egvProps, allNodes, allRelationships, status, scheme, newScheme,
                 searchQuery, debouncedQuery, graphType, schemaState, gvState>>

\* A variant of the schema button that routes the schema to the widget by
\* overwriting the visible sets.
handleSchemaViewShowsSchema ==
  /\ request.state \notin {"fulfilled", "rejected"}
  /\ Display = "graph"
  /\ schemaNodes' = extractGraphSchemaFromRawData(node, relationship).nodes
  /\ schemaRels' = extractGraphSchemaFromRawData(node, relationship).relationships
  /\ viewCheck' = "viz"
  /\ openGraphView' = TRUE
  /\ node' = extractGraphSchemaFromRawData(node, relationship).nodes
  /\ relationship' = extractGraphSchemaFromRawData(node, relationship).relationships
  /\ UNCHANGED <<egvProps, allNodes, allRelationships, status, scheme, newScheme,
                 searchQuery, debouncedQuery, graphType, gvState>>

\* The Schema View button of the graph display, called with the visible sets.
handleSchemaView ==
  /\ request.state \notin {"fulfilled", "rejected"}
  /\ Display = "graph"
  /\ schemaNodes' = extractGraphSchemaFromRawData(node, relationship).nodes
  /\ schemaRels' = extractGraphSchemaFromRawData(node, relationship).relationships
  /\ viewCheck' = "viz"
  /\ openGraphView' = TRUE
  /\ UNCHANGED <<egvProps, node, relationship, allNodes, allRelationships, status, scheme,
                 newScheme, searchQuery, debouncedQuery, graphType, gvState>>

\* ------------------------------------------------------------ GraphViewer
\* No user event is handled between the settling of the awaited request and
\* the continuation of handleLoadBackendData (a microtask).
Settled == request.state \in {"fulfilled", "rejected"}

handleLoadSampleData(sampleNodes, sampleRelationships) ==
  /\ ~Settled
  /\ nodes' = sampleNodes
  /\ relationships' = sampleRelationships
  /\ error' = Null
  /\ showGraph' = FALSE
  /\ UnmountEGV
  /\ lastLoad' = "sample"
  /\ UNCHANGED <<loading, password, request, formState, inFlight>>

\* A variant of the Load button that is not disabled while loading.
handleLoadBackendDataWhileLoading ==
  /\ ~Settled
  /\ password # ""
  /\ inFlight < MaxInFlight
  /\ loading' = TRUE
  /\ error' = Null
  /\ request' = [IdleRequest EXCEPT !.state = "pending"]
  /\ inFlight' = inFlight + 1
  /\ lastLoad' = "backend"
  /\ UNCHANGED <<egvProps, egvState, nodes, relationships, showGraph, password, formState>>

\* handleLoadBackendData up to its await; the button is disabled while
\* loading or without a password.  request follows the newest awaited call.
handleLoadBackendData ==
  /\ ~Settled
  /\ ~loading
  /\ password # ""
  /\ inFlight < MaxInFlight
  /\ loading' = TRUE
  /\ error' = Null
  /\ request' = [IdleRequest EXCEPT !.state = "pending"]
  /\ inFlight' = inFlight + 1
  /\ lastLoad' = "backend"
  /\ UNCHANGED <<egvProps, egvState, nodes, relationships, showGraph, password, formState>>

\* The awaited call resolves with a response.
RequestFulfilled(backendNodes, backendRelationships) ==
  /\ request.state = "pending"
  /\ request' = [state |-> "fulfilled", nodes |-> backendNodes,
                 relationships |-> backendRelationships, err |-> NoErr]
  /\ UNCHANGED <<egvProps, egvState, nodes, relationships, loading, error, showGraph, password,
                 formState, history>>

\* The awaited call rejects for a reason other than the abort.
RequestRejected(err) ==
  /\ request.state = "pending"
  /\ request' = [IdleRequest EXCEPT !.state = "rejected", !.err = err]
  /\ UNCHANGED <<egvProps, egvState, nodes, relationships, loading, error, showGraph, password,
                 formState, history>>

\* The 60 second timer fires while the request is pending: the controller
\* aborts and the awaited call rejects with an AbortError.
RequestTimeout ==
  /\ request.state = "pending"
  /\ request' = [IdleRequest EXCEPT !.state = "rejected", !.err = AbortError]
  /\ UNCHANGED <<egvProps, egvState, nodes, relationships, loading, error, showGraph, password,
                 formState, history>>

\* A variant of the catch block that does not look at the error's name.
ErrorMessageIgnoresName(err) == IF err.message # "" THEN err.message ELSE FallbackMessage

\* The message the catch block sets.
ErrorMessage(err) ==
  IF err.name = "AbortError" THEN TimeoutMessage
  ELSE IF err.message # "" THEN err.message
  ELSE FallbackMessage

\* A variant of the continuation that reports a response without nodes and
\* relationships as a failure.
LoadContinuationRejectsEmpty ==
  /\ Settled
  /\ nodes' = IF request.state = "fulfilled" THEN request.nodes ELSE nodes
  /\ relationships' = IF request.state = "fulfilled" THEN request.relationships ELSE relationships
  /\ showGraph' = IF request.state = "fulfilled" THEN FALSE ELSE showGraph
  /\ IF request.state = "fulfilled" THEN UnmountEGV ELSE UNCHANGED <<egvProps, egvState>>
  /\ error' = IF request.state = "fulfilled"
               THEN (IF request.nodes = <<>> /\ request.relationships = <<>>
                     THEN FallbackMessage ELSE error)
               ELSE ErrorMessage(request.err)
  /\ loading' = FALSE
  /\ request' = IdleRequest
  /\ inFlight' = inFlight - 1
  /\ UNCHANGED <<password, formState, lastLoad>>

\* A variant of the continuation without the finally block.
LoadContinuationNoFinally ==
  /\ Settled
  /\ nodes' = IF request.state = "fulfilled" THEN request.nodes ELSE nodes
  /\ relationships' = IF request.state = "fulfilled" THEN request.relationships ELSE relationships
  /\ showGraph' = IF request.state = "fulfilled" THEN FALSE ELSE showGraph
  /\ IF request.state = "fulfilled" THEN UnmountEGV ELSE UNCHANGED <<egvProps, egvState>>
  /\ error' = IF request.state = "fulfilled" THEN error ELSE ErrorMessage(request.err)
  /\ loading' = (request.state # "fulfilled")
  /\ request' = IdleRequest
  /\ inFlight' = inFlight - 1
  /\ UNCHANGED <<password, formState, lastLoad>>

\* A variant of the continuation that drops the graph when the load failed.
LoadContinuationClearsOnFailure ==
  /\ Settled
  /\ nodes' = IF request.state = "fulfilled" THEN request.nodes ELSE <<>>
  /\ relationships' = IF request.state = "fulfilled" THEN request.relationships ELSE <<>>
  /\ showGraph' = FALSE
  /\ UnmountEGV
  /\ error' = IF request.state = "fulfilled" THEN error ELSE ErrorMessage(request.err)
  /\ loading' = FALSE
  /\ request' = IdleRequest
  /\ inFlight' = inFlight - 1
  /\ UNCHANGED <<password, formState, lastLoad>>

\* handleLoadBackendData after its await: the success path, or the catch, and
\* the finally.
LoadContinuation ==
  /\ Settled
  /\ nodes' = IF request.state = "fulfilled" THEN request.nodes ELSE nodes
  /\ relationships' = IF request.state = "fulfilled" THEN request.relationships ELSE relationships
  /\ showGraph' = IF request.state = "fulfilled" THEN FALSE ELSE showGraph
  /\ IF request.state = "fulfilled" THEN UnmountEGV ELSE UNCHANGED <<egvProps, egvState>>
  /\ error' = IF request.state = "fulfilled" THEN error ELSE ErrorMessage(request.err)
  /\ loading' = FALSE
  /\ request' = IdleRequest
  /\ inFlight' = inFlight - 1
  /\ UNCHANGED <<password, formState, lastLoad>>

handleConnectionChange(value) ==
  /\ ~Settled
  /\ value # password
  /\ password' = value
  /\ UNCHANGED <<egvProps, egvState, nodes, relationships, loading, error, showGraph, request,
                 formState, history>>

\* The button is disabled without nodes (a click while the graph is shown
\* sets the same value again).  EmbeddedGraphView is mounted with the graph
\* GraphViewer holds, and its effects run.
handleShowGraph ==
  /\ ~Settled
  /\ Len(nodes) > 0
  /\ ~showGraph
  /\ showGraph' = TRUE
  /\ RenderEGV(nodes, relationships)
  /\ UNCHANGED <<schemaState, nodes, relationships, loading, error, password, request,
                 formState, history>>

\* ---------------------------------------------- GraphViewer, the file list
\* String.prototype.trim, with the blank as the white space.
RECURSIVE TrimLeft(_)
TrimLeft(t) == IF t # <<>> /\ Head(t) = " " THEN TrimLeft(Tail(t)) ELSE t

RECURSIVE TrimRight(_)
TrimRight(t) == IF t # <<>> /\ t[Len(t)] = " " THEN TrimRight(SubSeq(t, 1, Len(t) - 1)) ELSE t

Trim(t) == TrimRight(TrimLeft(t))

\* [...new Set(list)]: the first occurrence of every entry, in order.
RECURSIVE Uniq(_, _)
Uniq(list, i) ==
  IF i > Len(list) THEN <<>>
  ELSE (IF \A j \in 1..(i - 1) : list[j] # list[i] THEN <<list[i]>> ELSE <<>>) \o Uniq(list, i + 1)

notFiles == <<egvProps, egvState, nodes, relationships, loading, error, showGraph, password,
              request, history>>

\* onChange of the file name input.
setNewFileName(value) ==
  /\ value # newFileName
  /\ newFileName' = value
  /\ UNCHANGED <<documentNames, notFiles>>

\* A variant of handleAddFile without the test for a name already listed.
handleAddFileAlways ==
  /\ IF Trim(newFileName) # <<>>
     THEN /\ documentNames' = Append(documentNames, Trim(newFileName))
          /\ newFileName' = <<>>
     ELSE UNCHANGED <<documentNames, newFileName>>
  /\ UNCHANGED notFiles

\* The Add button, or Enter in the input (which calls the handler also when
\* the button is disabled).
handleAddFile ==
  /\ IF Trim(newFileName) # <<>> /\ Trim(newFileName) \notin Range(documentNames)
     THEN /\ documentNames' = Append(documentNames, Trim(newFileName))
          /\ newFileName' = <<>>
     ELSE UNCHANGED <<documentNames, newFileName>>
  /\ UNCHANGED notFiles

\* The remove button of the entry at index (0-based, as rendered).
handleRemoveFile(index) ==
  /\ index \in 0..(Len(documentNames) - 1)
  /\ documentNames' = [k \in 1..(Len(documentNames) - 1) |->
                         IF k <= index THEN documentNames[k] ELSE documentNames[k + 1]]
  /\ UNCHANGED <<newFileName, notFiles>>

\* The bulk buttons are rendered while the list is not empty.
handleClearAllFiles ==
  /\ Len(documentNames) > 0
  /\ documentNames' = <<>>
  /\ UNCHANGED <<newFileName, notFiles>>

handleAddSampleFiles ==
  /\ Len(documentNames) > 0
  /\ documentNames' = Uniq(documentNames \o SampleFiles, 1)
  /\ UNCHANGED <<newFileName, notFiles>>

Next ==
  \/ \E nv \in RawNodeLists, rv \in RawRelLists : HostRender(nv, rv)
  \/ \E q \in Queries : SetSearchQuery(q)
  \/ DebounceElapsed
  \/ \E graph \in GraphTypes : handleCheckboxChange(graph)
  \/ handleRefresh

Spec == Init /\ [][Next]_vars

\* GraphViewer with the EmbeddedGraphView it mounts; it passes viewPoint
\* "chatInfoView", under which the category toggles and the refresh button
\* are not rendered.
InitViewer ==
  /\ nodeValues = <<>>
  /\ relationshipValues = <<>>
  /\ viewPoint = "chatInfoView"
  /\ InitEGV
  /\ InitGV

NextViewer ==
  \/ \E sn \in PayloadNodeLists, sr \in RawRelLists : handleLoadSampleData(sn, sr)
  \/ handleLoadBackendData
  \/ \E bn \in PayloadNodeLists, br \in RawRelLists : RequestFulfilled(bn, br)
  \/ \E err \in FailureErrors : RequestRejected(err)
  \/ RequestTimeout
  \/ LoadContinuation
  \/ \E value \in Passwords : handleConnectionChange(value)
  \/ handleShowGraph
  \/ \E q \in Queries : SetSearchQuery(q)
  \/ DebounceElapsed
  \/ handleSchemaView

SpecGV == InitViewer /\ [][NextViewer]_vars

\* The continuation of an awaited call is a microtask and runs; the 60 second
\* timer of a request that is still pending fires.
LiveSpecGV == SpecGV /\ WF_vars(LoadContinuation) /\ WF_vars(RequestTimeout)

\* The file list of the connection form.  The list only feeds the arguments
\* of the backend call, so its handlers are followed on their own.
NextFiles ==
  \/ \E value \in FileInputs : setNewFileName(value)
  \/ handleAddFile
  \/ \E index \in 0..Len(SampleFiles) : handleRemoveFile(index)
  \/ handleClearAllFiles
  \/ handleAddSampleFiles

SpecFiles == InitViewer /\ [][NextFiles]_vars

\* ------------------------------------------------------------------ claims
Lower(c) == IF c = "A" THEN "a" ELSE IF c = "B" THEN "b" ELSE c

LowerText(t) == [i \in 1..Len(t) |-> Lower(t[i])]

\* Whether text t contains q as a substring, ignoring case.
ContainsIgnoreCase(t, q) ==
  \E k \in 0..(Len(t) - Len(q)) : \A i \in 1..Len(q) : LowerText(t)[k + i] = LowerText(q)[i]

\* C1: every visible relationship has both its endpoints among the visible
\* nodes, in every reachable state of EmbeddedGraphView.
C1_VisibleEndpointsPresent ==
  \A i \in 1..Len(relationship) :
    relationship[i].from \in Ids(node) /\ relationship[i].to \in Ids(node)

\* C1 witness: the canonical graph has a relationship, the category filter
\* hid one of its endpoints and the relationship went with it.
C1_Witness ==
  /\ debouncedQuery # <<>>
  /\ Len(allRelationships) > 0
  /\ Len(node) > 0
  /\ Len(node) < Len(allNodes)
  /\ relationship = <<>>

\* C2: no step of a backend load other than the commit of a fulfilled
\* response changes nodes, relationships or showGraph; a load that is cancelled
\* or fails leaves the committed graph as it was.
C2_FailedLoadKeepsGraph ==
  [][(request' # request /\ request.state # "fulfilled")
       => (nodes' = nodes /\ relationships' = relationships /\ showGraph' = showGraph)]_vars

\* C2 witness: a load was cancelled by the timeout while a graph was committed
\* and shown.
C2_Witness ==
  /\ error = TimeoutMessage
  /\ ~loading
  /\ Len(nodes) > 0
  /\ showGraph

\* C3: whenever the active category set is non-empty, every visible node has
\* a primary label of an active category (stated for a successfully loaded
\* graph).
C3_VisibleOnlyActiveCategories ==
  (graphType # {} /\ status = "success")
    => \A i \in 1..Len(node) : CategoryOf(node[i].label) \in graphType

\* C4: when the search query is non-empty, every visible node is of an active
\* category and its caption contains the query, ignoring case (stated for a
\* successfully loaded graph).
C4_QueryIntersectsCategory ==
  (debouncedQuery # <<>> /\ status = "success")
    => \A i \in 1..Len(node) :
         /\ CategoryOf(node[i].label) \in graphType
         /\ ContainsIgnoreCase(node[i].caption, debouncedQuery)

\* C5: after every change of the criteria (category set or delivered query)
\* the visible sets are a function of the new criteria and the canonical graph
\* alone: the canonical graph itself without a query, its category filter with
\* one; the previously visible sets play no part.
C5_VisibleFromCanonical ==
  [][(graphType' # graphType \/ debouncedQuery' # debouncedQuery)
       => /\ node' = IF debouncedQuery' = <<>> THEN allNodes'
                     ELSE filterData(graphType', allNodes', allRelationships', scheme').filteredNodes
          /\ relationship' = IF debouncedQuery' = <<>> THEN allRelationships'
                             ELSE filterData(graphType', allNodes', allRelationships', scheme').filteredRelations]_vars

\* C5 witness: with a query delivered, the visible nodes are a proper,
\* non-empty part of the canonical graph, and the category set was changed.
C5_Witness ==
  /\ debouncedQuery # <<>>
  /\ Len(node) > 0
  /\ Len(node) < Len(allNodes)
  /\ graphType # graphTypeFromNodes(nodeValues)

\* C6: once a graph has been loaded, the canonical graph, the scheme, the
\* category set and the visible sets all derive from the props the component
\* currently has; no state mixes two snapshots.
C6_StateFromCurrentInput ==
  LET p == processGraphData(nodeValues, relationshipValues)
  IN (allNodes # <<>> /\ nodeValues # <<>>)
       => /\ allNodes = p.finalNodes
          /\ allRelationships = p.finalRels
          /\ scheme = p.schemeVal
          /\ newScheme = p.schemeVal
          /\ ~checkBoxView => graphType = graphTypeFromNodes(nodeValues)
          /\ Range(node) \subseteq Range(p.finalNodes)
          /\ Range(relationship) \subseteq Range(p.finalRels)

\* C7: in the checkbox-driven view with data loaded and no active category,
\* the visible sets are empty and the display is the "select a category"
\* banner.
C7_NoCategoryShowsNothing ==
  (checkBoxView /\ graphType = {} /\ status = "success")
    => (node = <<>> /\ relationship = <<>> /\ Display = "selectCheckbox")

\* C8: when categories are active and no node of the canonical graph belongs
\* to any of them, the visible sets are empty.
C8_NoMatchShowsNothing ==
  (/\ graphType # {}
   /\ Display # "noGraphData"
   /\ \A i \in 1..Len(allNodes) : CategoryOf(allNodes[i].label) \notin graphType)
    => (node = <<>> /\ relationship = <<>>)

\* C9: the scheme is append-only: no step removes a label from it or changes
\* the colour of a label.
C9_SchemeAppendOnly ==
  [][\A l \in SchemeKeys(scheme) : scheme'[l] = scheme[l]]_vars

\* C10: the continuation of a backend load ends with loading false; after a
\* rejection the error is not null and is the timeout message exactly for an
\* AbortError; after a fulfilled response the error is null.
C10_ErrorMessages ==
  [][(Settled /\ request'.state = "idle")
       => /\ ~loading'
          /\ IF request.state = "rejected"
             THEN error' # Null /\ (error' = TimeoutMessage <=> request.err.name = "AbortError")
             ELSE error' = Null]_vars

\* C10 witness: a load failed with an error that carries no message, and the
\* fallback message is shown.
C10_Witness ==
  /\ error = FallbackMessage
  /\ ~loading
  /\ request.state = "idle"

\* C11: a backend response with no nodes and no relationships is committed
\* without an error: error is null, the status of EmbeddedGraphView is not
\* "danger", and GraphViewer holds no data (no graph to open, nothing loaded).
C11_EmptyFetchIsNoError ==
  [][(request.state = "fulfilled" /\ request.nodes = <<>> /\ request.relationships = <<>>
      /\ request'.state = "idle")
     => (error' = Null /\ status' # "danger" /\ nodes' = <<>> /\ relationships' = <<>>
         /\ ~showGraph' /\ ~loading')]_vars

\* An empty backend response was committed.
C11_Witness ==
  /\ lastLoad = "backend"
  /\ request.state = "idle"
  /\ error = Null
  /\ nodes = <<>>
  /\ relationships = <<>>

\* C12: a step of handleSchemaView changes schemaNodes, schemaRels, viewCheck
\* and openGraphView only: the canonical graph, the scheme, the visible sets,
\* the category set, the search query and everything else stay as they are.
C12_SchemaViewFrame ==
  [][(openGraphView' /\ schemaState' # schemaState)
     => UNCHANGED <<allNodes, allRelationships, scheme, newScheme, node, relationship,
                    graphType, searchQuery, debouncedQuery, status, egvProps, gvState>>]_vars

\* The schema view was opened on a graph while a search is typed.
C12_Witness ==
  /\ openGraphView
  /\ viewCheck = "viz"
  /\ Len(schemaNodes) > 0
  /\ Len(allNodes) > 0
  /\ searchQuery # <<>>

\* C13: a backend load that was started eventually finishes, loading being
\* false again, whether the request is answered, fails, or is aborted by the
\* timer.
C13_LoadEventuallyFinishes == loading ~> ~loading

\* A load that the timer aborted is about to finish.
C13_Witness ==
  /\ loading
  /\ request.state = "rejected"
  /\ request.err.name = "AbortError"

\* C14: a backend response that is committed after the user loaded sample
\* data (the sample load being the load initiated last) leaves the nodes and
\* relationships of the sample load in place.
C14_LastLoadWins ==
  [][(Settled /\ request'.state = "idle" /\ lastLoad = "sample")
     => (nodes' = nodes /\ relationships' = relationships)]_vars

\* C15: at most one backend call is awaited at a time; a load starts only
\* while loading is false and the password is not empty; loading is true as
\* long as a call has not been committed.
C15_OneRequestInFlight ==
  [][/\ inFlight' <= 1
     /\ (inFlight' > inFlight => (~loading /\ password # "" /\ inFlight = 0))
     /\ (inFlight' > 0 => loading')]_vars

\* A response has arrived and is not committed yet.
C15_Witness ==
  /\ inFlight = 1
  /\ loading
  /\ request.state = "fulfilled"

\* C16: the document list never holds an entry twice, nor an empty or blank
\* entry; a step that clears the input and extends the list is an add of a
\* trimmed name that was not in the list, so that an add of a listed name
\* changes nothing.
C16_DocumentNamesDistinct ==
  [][/\ \A i, j \in 1..Len(documentNames') :
          i # j => documentNames'[i] # documentNames'[j]
     /\ \A i \in 1..Len(documentNames') : Trim(documentNames'[i]) # <<>>
     /\ ((newFileName # <<>> /\ newFileName' = <<>> /\ documentNames' # documentNames)
         => (Trim(newFileName) \notin Range(documentNames)
             /\ documentNames' = Append(documentNames, Trim(newFileName))))]_vars

\* A typed name with blanks around it was added, trimmed, after the sample
\* files.
C16_Witness ==
  /\ Len(documentNames) = Len(SampleFiles) + 1
  /\ documentNames[Len(documentNames)] = <<"x">>
  /\ newFileName = <<"A", " ">>

====
